---- MODULE Spec2Model ----
(***************************************************************************)
(* The constant-expression checking pass of librustc                       *)
(* (src/librustc/middle/check_const.rs) as a state machine.                *)
(*                                                                         *)
(* The recursive visitors are run on an explicit control stack `stack`:    *)
(* the head frame is the call that runs next, the frames behind it are the *)
(* calls that follow it in program order.  Every action pops the head      *)
(* frame, performs the body of that function up to its calls, and pushes   *)
(* the calls it makes, in the order the code makes them.                   *)
(*                                                                         *)
(* The program tree is chosen in Init and never changes.  The side tables  *)
(* of the earlier passes are stored on the node they are keyed by:         *)
(*   method : method_map has the node's id   (typeck::method_map)          *)
(*   ety    : class of ty::expr_ty of a cast (ty::ctxt)                    *)
(*   def, krate, node : def_map entry of the node's id (resolve::DefMap)   *)
(*   types  : some segment of the path carries type parameters            *)
(* Init draws only trees the earlier passes can hand over: every path is   *)
(* resolved, and a local DefStatic names a static item of the crate.       *)
(***************************************************************************)
EXTENDS Integers, Sequences, FiniteSets, TLC

\* ------------------------------------------------------------------ bounds
MaxStatics == 3    \* statics of a crate of the reference-graph family
MaxRefs == 3       \* path references to local statics in such a crate
MaxDepth == 2      \* operators wrapped around the leaf of an expression
MaxMixed == 3      \* items of a crate of the mixed family

\* ------------------------------------------------------------- diagnostics
MsgAlloc == "cannot do allocations in constant expressions"
MsgUserOp == "user-defined operators are not allowed in constant expressions"
MsgCast == "can not cast to this type in a constant expression"
MsgPathTypes == "paths in constants may only refer to items without type parameters"
MsgPathDef == "paths in constants may only refer to constants or functions"
MsgCall == "function calls in constants are limited to struct and enum constructors"
MsgBorrow == "borrowed pointers in constants may only refer to immutable values"
MsgVecAlloc == "cannot allocate vectors in constant expressions"
MsgUnimpl == "constant contains unimplemented expression type"
MsgRecursive == "recursive constant"

\* ------------------------------------------------------------ program tree
LOCAL_CRATE == "local"

Mk(kind, sub, kids) ==
    [kind |-> kind, sub |-> sub, kids |-> kids, method |-> FALSE, ety |-> "",
     def |-> "None", krate |-> LOCAL_CRATE, node |-> 0, types |-> FALSE]

MkPath(def, krate, node, types) ==
    [Mk("ExprPath", "", <<>>) EXCEPT !.def = def, !.krate = krate,
                                     !.node = node, !.types = types]

MkOp(kind, sub, kids, method) == [Mk(kind, sub, kids) EXCEPT !.method = method]

MkCast(kid, ety) == [Mk("ExprCast", "", <<kid>>) EXCEPT !.ety = ety]

MkPat(kind, exprs, pats) == [kind |-> kind, exprs |-> exprs, pats |-> pats]

MkItem(id, kind, ex, variants, items, pats) ==
    [id |-> id, kind |-> kind, ex |-> ex, variants |-> variants,
     items |-> items, pats |-> pats]

MkStatic(id, ex) == MkItem(id, "item_static", <<ex>>, <<>>, <<>>, <<>>)

Lit == Mk("ExprLit", "lit_int", <<>>)
StrLit == Mk("ExprLit", "lit_str", <<>>)
PathStatic(id) == MkPath("DefStatic", LOCAL_CRATE, id, FALSE)
PathExtern == MkPath("DefStatic", "extern", 1, FALSE)
PathFn == MkPath("DefFn", LOCAL_CRATE, 8, FALSE)
PathStruct == MkPath("DefStruct", LOCAL_CRATE, 9, FALSE)
PathLocalVar == MkPath("DefLocal", LOCAL_CRATE, 6, FALSE)
PathTyped == MkPath("DefStruct", LOCAL_CRATE, 9, TRUE)

\* ------------------------------------------------- check_expr, the match
Arm(msgs, stop) == [msgs |-> msgs, stop |-> stop, paren |-> FALSE, bug |-> FALSE]

\* The path arm: the type-parameter test, then the def_map lookup.
PathArm(e) ==
    LET tp == IF e.types THEN <<MsgPathTypes>> ELSE <<>>
    IN  IF e.def \in {"DefStatic", "DefFn", "DefVariant", "DefStruct"}
        THEN Arm(tp, FALSE)
        ELSE IF e.def = "None"
             THEN [Arm(tp, TRUE) EXCEPT !.bug = TRUE]
             ELSE Arm(tp \o <<MsgPathDef>>, FALSE)

\* A faulty variant of AllocArm: the `return` is missing.
AllocArmWalks(e) == Arm(<<MsgAlloc>>, FALSE)

\* ExprUnary(_, UnBox, _) | ExprUnary(_, UnUniq, _): the error, then `return`.
AllocArm(e) == Arm(<<MsgAlloc>>, TRUE)

\* A faulty variant of DefaultArm: an unlisted form is accepted.
DefaultArmSilent(e) == Arm(<<>>, FALSE)

\* The `_` arm: the error, then `return`.
DefaultArm(e) == Arm(<<MsgUnimpl>>, TRUE)

\* The arms of `match e.node`, in the order the code tries them.  `stop` is
\* the arm's `return`: the walk_expr at the end of check_expr is skipped.
ExprArm(e) ==
    IF e.kind = "ExprUnary" /\ e.sub = "UnDeref" THEN Arm(<<>>, FALSE)
    ELSE IF e.kind = "ExprUnary" /\ e.sub \in {"UnBox", "UnUniq"} THEN AllocArm(e)
    ELSE IF e.kind = "ExprLit" /\ e.sub = "lit_str" THEN Arm(<<>>, FALSE)
    ELSE IF e.kind \in {"ExprBinary", "ExprUnary"}
    THEN Arm(IF e.method THEN <<MsgUserOp>> ELSE <<>>, FALSE)
    ELSE IF e.kind = "ExprLit" THEN Arm(<<>>, FALSE)
    ELSE IF e.kind = "ExprCast"
    THEN Arm(IF e.ety \notin {"numeric", "unsafe_ptr"} THEN <<MsgCast>> ELSE <<>>,
             FALSE)
    ELSE IF e.kind = "ExprPath" THEN PathArm(e)
    ELSE IF e.kind = "ExprCall" /\ e.sub = "NoSugar"
    THEN Arm(IF e.kids[1].def \in {"DefStruct", "DefVariant"}
             THEN <<>> ELSE <<MsgCall>>, FALSE)
    ELSE IF e.kind = "ExprParen" THEN [Arm(<<>>, FALSE) EXCEPT !.paren = TRUE]
    ELSE IF \/ e.kind = "ExprVstore" /\ e.sub = "ExprVstoreSlice"
            \/ e.kind = "ExprVec" /\ e.sub = "MutImmutable"
            \/ e.kind = "ExprAddrOf" /\ e.sub = "MutImmutable"
            \/ e.kind \in {"ExprField", "ExprIndex", "ExprTup", "ExprRepeat",
                           "ExprStruct"}
    THEN Arm(<<>>, FALSE)
    ELSE IF e.kind = "ExprAddrOf" THEN Arm(<<MsgBorrow>>, FALSE)
    ELSE IF e.kind = "ExprVstore" /\ e.sub \in {"ExprVstoreUniq", "ExprVstoreBox"}
    THEN Arm(<<MsgVecAlloc>>, FALSE)
    ELSE DefaultArm(e)

\* is_str of check_pat: a ~-string literal.
is_str(e) ==
    /\ e.kind = "ExprVstore"
    /\ e.sub = "ExprVstoreUniq"
    /\ e.kids[1].kind = "ExprLit"
    /\ e.kids[1].sub = "lit_str"

\* ast_util::is_local
is_local(e) == e.krate = LOCAL_CRATE

\* ------------------------------------------------------------------ state
VARIABLES
    crate,       \* the items of the crate, in the order walk_crate visits them
    stack,       \* the calls still to run, the next one first
    err_count,   \* the session's count of span_err calls
    diags,       \* the diagnostics emitted so far, in order
    status,      \* "running" | "ok" | "aborted" | "fatal" | "bug"
    idstack,     \* env.idstack of the running check_item_recursion
    root_it,     \* env.root_it of the running check_item_recursion
    visits,      \* every entry of check_expr so far: node id, is_const, node
    roots,       \* the items check_item_recursion was called with, in order
    dispatched   \* the items check_item was called with, in order

vars == <<crate, stack, err_count, diags, status, idstack, root_it, visits,
          roots, dispatched>>

NoItem == MkItem(0, "none", <<>>, <<>>, <<>>, <<>>)

RECURSIVE ItemsIn(_)
ItemsIn(items) ==
    IF items = <<>> THEN {}
    ELSE {Head(items)} \cup ItemsIn(Head(items).items) \cup ItemsIn(Tail(items))

\* ast_map.get_copy(&def_id.node): the item a local definition is bound to.
ItemOf(id) == CHOOSE it \in ItemsIn(crate) : it.id = id

Frame(op) == [op |-> op]
ItemFrame(op, it, env) == [op |-> op, it |-> it, env |-> env]
ExprFrame(op, e, id, env) == [op |-> op, e |-> e, id |-> id, env |-> env]
PatFrame(p, id, env) == [op |-> "visit_pat", p |-> p, id |-> id, env |-> env]

\* visit::walk_expr: the visitor's visit_expr on every child, in order.
walk_expr(op, e, id, env) ==
    [k \in 1..Len(e.kids) |-> ExprFrame(op, e.kids[k], Append(id, k), env)]

\* visit::walk_pat: visit_expr on the pattern's expressions, visit_pat on its
\* sub-patterns.
walk_pat(p, id, env) ==
    [k \in 1..Len(p.exprs) |-> ExprFrame("check_expr", p.exprs[k], Append(id, k), env)]
    \o [k \in 1..Len(p.pats) |-> PatFrame(p.pats[k], Append(id, -k), env)]

\* visit::walk_item of the crate visitor: argument patterns, body
\* expressions and nested items, each through the visitor.
walk_item(it, env) ==
    [k \in 1..Len(it.pats) |-> PatFrame(it.pats[k], <<it.id, -k>>, env)]
    \o [k \in 1..Len(it.ex) |-> ExprFrame("check_expr", it.ex[k], <<it.id, k>>, env)]
    \o [k \in 1..Len(it.items) |-> ItemFrame("check_item", it.items[k], env)]

\* visit::walk_item of the recursion visitor on a static: its initializer.
rec_walk_item(it) ==
    [k \in 1..Len(it.ex) |-> ExprFrame("rec_visit_expr", it.ex[k], <<it.id, k>>, FALSE)]

\* The discriminants of an enum: `for var ... for ex in var.node.disr_expr`.
RECURSIVE disr_frames(_, _, _)
disr_frames(it, k, env) ==
    IF k > Len(it.variants) THEN <<>>
    ELSE (IF it.variants[k] = <<>> THEN <<>>
          ELSE <<ExprFrame("check_expr", it.variants[k][1], <<it.id, k>>, env)>>)
         \o disr_frames(it, k + 1, env)

Spans(msgs, id) == [k \in 1..Len(msgs) |-> [msg |-> msgs[k], span |-> id]]

Running(op) == status = "running" /\ stack # <<>> /\ Head(stack).op = op

\* ------------------------------------------------------------ crate walker
\* A faulty variant of check_crate: the call of sess.abort_if_errors is missing.
check_crate_no_abort ==
    /\ Running("check_crate")
    /\ stack' = [k \in 1..Len(crate) |-> ItemFrame("check_item", crate[k], FALSE)]
    /\ UNCHANGED <<crate, err_count, diags, status, idstack, root_it, visits,
                   roots, dispatched>>

\* check_crate up to its two calls: walk_crate, then sess.abort_if_errors.
check_crate ==
    /\ Running("check_crate")
    /\ stack' = [k \in 1..Len(crate) |-> ItemFrame("check_item", crate[k], FALSE)]
                \o <<Frame("abort_if_errors")>>
    /\ UNCHANGED <<crate, err_count, diags, status, idstack, root_it, visits,
                   roots, dispatched>>

\* A faulty variant of ItemCalls: the detector runs before the initializer is validated.
ItemCallsDetectFirst(it) ==
    IF it.kind = "item_static"
    THEN <<ItemFrame("check_item_recursion", it, FALSE),
           ExprFrame("check_expr", it.ex[1], <<it.id, 1>>, TRUE)>>
    ELSE IF it.kind = "item_enum" THEN disr_frames(it, 1, TRUE)
    ELSE walk_item(it, FALSE)

\* The calls check_item makes for an item.
ItemCalls(it) ==
    IF it.kind = "item_static"
    THEN <<ExprFrame("check_expr", it.ex[1], <<it.id, 1>>, TRUE),
           ItemFrame("check_item_recursion", it, FALSE)>>
    ELSE IF it.kind = "item_enum" THEN disr_frames(it, 1, TRUE)
    ELSE walk_item(it, FALSE)

\* CheckCrateVisitor::visit_item -> check_item
check_item ==
    /\ Running("check_item")
    /\ stack' = ItemCalls(Head(stack).it) \o Tail(stack)
    /\ dispatched' = Append(dispatched, Head(stack).it.id)
    /\ UNCHANGED <<crate, err_count, diags, status, idstack, root_it, visits, roots>>

\* The calls check_pat makes for a pattern.
PatCalls(p, id) ==
    IF p.kind \in {"PatLit", "PatRange"}
    THEN LET keep == {k \in 1..Len(p.exprs) : ~is_str(p.exprs[k])}
             pick[k \in 0..Len(p.exprs)] ==
                 IF k = 0 THEN <<>>
                 ELSE pick[k - 1] \o
                      (IF k \in keep
                       THEN <<ExprFrame("check_expr", p.exprs[k], Append(id, k), TRUE)>>
                       ELSE <<>>)
         IN  pick[Len(p.exprs)]
    ELSE walk_pat(p, id, FALSE)

\* CheckCrateVisitor::visit_pat -> check_pat
check_pat ==
    /\ Running("visit_pat")
    /\ stack' = PatCalls(Head(stack).p, Head(stack).id) \o Tail(stack)
    /\ UNCHANGED <<crate, err_count, diags, status, idstack, root_it, visits,
                   roots, dispatched>>

\* What check_expr leaves to run after its match: nothing after a `return`,
\* the recursive call and then walk_expr for a parenthesized expression,
\* walk_expr otherwise.
ExprCalls(e, id, is_const) ==
    LET arm == ExprArm(e)
    IN  IF is_const /\ arm.stop THEN <<>>
        ELSE IF is_const /\ arm.paren
        THEN <<ExprFrame("check_expr", e.kids[1], Append(id, 1), is_const),
               ExprFrame("walk_expr", e, id, is_const)>>
        ELSE walk_expr("check_expr", e, id, is_const)

\* CheckCrateVisitor::visit_expr -> check_expr
check_expr ==
    /\ Running("check_expr")
    /\ LET f == Head(stack)
           arm == ExprArm(f.e)
       IN  /\ visits' = Append(visits, [id |-> f.id, is_const |-> f.env, e |-> f.e])
           /\ diags' = IF f.env THEN diags \o Spans(arm.msgs, f.id) ELSE diags
           /\ err_count' = IF f.env THEN err_count + Len(arm.msgs) ELSE err_count
           /\ status' = IF f.env /\ arm.bug THEN "bug" ELSE status
           /\ stack' = ExprCalls(f.e, f.id, f.env) \o Tail(stack)
    /\ UNCHANGED <<crate, idstack, root_it, roots, dispatched>>

\* The walk_expr that ends check_expr, run after the recursive call of the
\* ExprParen arm has returned.
check_expr_walk ==
    /\ Running("walk_expr")
    /\ LET f == Head(stack)
       IN  stack' = walk_expr("check_expr", f.e, f.id, f.env) \o Tail(stack)
    /\ UNCHANGED <<crate, err_count, diags, status, idstack, root_it, visits,
                   roots, dispatched>>

\* Session::abort_if_errors: abort when the error count is not zero.
AbortDecision(count) == IF count > 0 THEN "aborted" ELSE "ok"

\* sess.abort_if_errors() at the end of check_crate
abort_if_errors ==
    /\ Running("abort_if_errors")
    /\ status' = AbortDecision(err_count)
    /\ stack' = Tail(stack)
    /\ UNCHANGED <<crate, err_count, diags, idstack, root_it, visits, roots,
                   dispatched>>

\* ---------------------------------------------------------- cycle detector
\* check_item_recursion: a fresh env, then visitor.visit_item(it).
check_item_recursion ==
    /\ Running("check_item_recursion")
    /\ root_it' = Head(stack).it
    /\ idstack' = <<>>
    /\ roots' = Append(roots, Head(stack).it.id)
    /\ stack' = <<ItemFrame("rec_visit_item", Head(stack).it, FALSE),
                  Frame("rec_return")>> \o Tail(stack)
    /\ UNCHANGED <<crate, err_count, diags, status, visits, dispatched>>

\* The return of check_item_recursion: the env and its idstack are dropped.
check_item_recursion_return ==
    /\ Running("rec_return")
    /\ root_it' = NoItem
    /\ stack' = Tail(stack)
    /\ UNCHANGED <<crate, err_count, diags, status, idstack, visits, roots,
                   dispatched>>

\* A faulty variant of OnStack: only the top of the stack is compared.
OnStackTop(ids, id) == ids # <<>> /\ ids[Len(ids)] = id

\* idstack.iter().any(|x| x == &(it.id))
OnStack(ids, id) == \E k \in 1..Len(ids) : ids[k] = id

\* A faulty variant of FatalSpan: the error is reported at the point of recursion.
FatalSpanAtRecursion(root, it) == <<idstack[Len(idstack)]>>

\* The span the fatal error is reported at: self.env.root_it.span
FatalSpan(root, it) == <<root.id>>

\* CheckItemRecursionVisitor::visit_item up to walk_item
visit_item ==
    /\ Running("rec_visit_item")
    /\ LET it == Head(stack).it
       IN  IF OnStack(idstack, it.id)
           THEN /\ status' = "fatal"
                /\ diags' = Append(diags, [msg |-> MsgRecursive,
                                           span |-> FatalSpan(root_it, it)])
                /\ UNCHANGED <<stack, idstack>>
           ELSE /\ idstack' = Append(idstack, it.id)
                /\ stack' = rec_walk_item(it)
                            \o <<ItemFrame("rec_pop", it, FALSE)>> \o Tail(stack)
                /\ UNCHANGED <<status, diags>>
    /\ UNCHANGED <<crate, err_count, root_it, visits, roots, dispatched>>

\* A faulty variant of Pop: the pop on exit is missing.
PopNothing(ids) == ids

\* idstack.get().pop()
Pop(ids) == SubSeq(ids, 1, Len(ids) - 1)

\* CheckItemRecursionVisitor::visit_item after walk_item
visit_item_exit ==
    /\ Running("rec_pop")
    /\ idstack' = Pop(idstack)
    /\ stack' = Tail(stack)
    /\ UNCHANGED <<crate, err_count, diags, status, root_it, visits, roots,
                   dispatched>>

\* A faulty variant of RefersToLocalStatic: the is_local guard is missing.
RefersToAnyStatic(e) == e.kind = "ExprPath" /\ e.def = "DefStatic"

\* The item visit_expr of the recursion visitor descends into, if any.
RefersToLocalStatic(e) ==
    e.kind = "ExprPath" /\ e.def = "DefStatic" /\ is_local(e)

\* CheckItemRecursionVisitor::visit_expr
visit_expr ==
    /\ Running("rec_visit_expr")
    /\ LET f == Head(stack)
       IN  stack' = (IF RefersToLocalStatic(f.e)
                     THEN <<ItemFrame("rec_visit_item", ItemOf(f.e.node), FALSE)>>
                     ELSE <<>>)
                    \o walk_expr("rec_visit_expr", f.e, f.id, FALSE)
                    \o Tail(stack)
    /\ UNCHANGED <<crate, err_count, diags, status, idstack, root_it, visits,
                   roots, dispatched>>

Next ==
    \/ check_crate
    \/ check_item
    \/ check_pat
    \/ check_expr
    \/ check_expr_walk
    \/ abort_if_errors
    \/ check_item_recursion
    \/ check_item_recursion_return
    \/ visit_item
    \/ visit_item_exit
    \/ visit_expr

\* ------------------------------------------------------- the crates of Init
\* Expressions: a leaf under at most MaxDepth operators.  `self` is the id of
\* a local static the leaf may name (0: none).
Leaves(self) ==
    {Lit, StrLit, PathExtern, PathFn, PathLocalVar, PathTyped}
    \cup (IF self = 0 THEN {} ELSE {PathStatic(self)})

\* The leaves put under the deepest nests.
CoreLeaves(self) == {Lit} \cup (IF self = 0 THEN {} ELSE {PathStatic(self)})

Wrap(x) ==
    {MkOp("ExprUnary", "UnDeref", <<x>>, FALSE),
     MkOp("ExprUnary", "UnBox", <<x>>, FALSE),
     MkOp("ExprUnary", "UnUniq", <<x>>, FALSE),
     MkOp("ExprUnary", "UnNeg", <<x>>, FALSE),
     MkOp("ExprUnary", "UnNeg", <<x>>, TRUE),
     MkOp("ExprBinary", "BiAdd", <<Lit, x>>, FALSE),
     MkCast(x, "numeric"),
     MkCast(x, "other"),
     Mk("ExprCall", "NoSugar", <<PathStruct, x>>),
     Mk("ExprCall", "NoSugar", <<PathFn, x>>),
     Mk("ExprCall", "ForSugar", <<PathStruct, x>>),
     Mk("ExprParen", "", <<x>>),
     Mk("ExprVstore", "ExprVstoreSlice", <<x>>),
     Mk("ExprVstore", "ExprVstoreUniq", <<x>>),
     Mk("ExprVstore", "ExprVstoreMutSlice", <<x>>),
     Mk("ExprVec", "MutMutable", <<x>>),
     Mk("ExprAddrOf", "MutImmutable", <<x>>),
     Mk("ExprAddrOf", "MutMutable", <<x>>),
     Mk("ExprTup", "", <<x, Lit>>),
     Mk("ExprBlock", "", <<x>>)}

RECURSIVE Nest(_, _)
Nest(d, leaves) ==
    IF d <= 0 THEN leaves
    ELSE leaves \cup UNION {Wrap(x) : x \in Nest(d - 1, leaves)}

Exprs(d, self) == Nest(d, CoreLeaves(self)) \cup Nest(d - 1, Leaves(self))

\* One item holding one expression: a static with its initializer, or a
\* function with the expression in its body.
ExprCrates ==
    {<<MkStatic(1, x)>> : x \in Exprs(MaxDepth, 1)}
    \cup {<<MkItem(1, "item_fn", <<x>>, <<>>, <<>>, <<>>)>> : x \in Exprs(MaxDepth - 1, 0)}

\* Reference graphs: MaxStatics statics whose initializers hold at most
\* MaxRefs paths to statics of the crate in all.
StaticIds == 1..MaxStatics

RECURSIVE EdgeSets(_)
EdgeSets(k) ==
    IF k = 0 THEN {{}}
    ELSE LET S == EdgeSets(k - 1)
         IN  S \cup {E \cup {<<a, b>>} : E \in S, a \in StaticIds, b \in StaticIds}

RECURSIVE PathsTo(_)
PathsTo(T) ==
    IF T = {} THEN <<>>
    ELSE LET m == CHOOSE x \in T : \A y \in T : x <= y
         IN  <<PathStatic(m)>> \o PathsTo(T \ {m})

RefInit(E, a) ==
    LET T == {b \in StaticIds : <<a, b>> \in E}
    IN  IF T = {} THEN Lit
        ELSE IF Cardinality(T) = 1 THEN PathsTo(T)[1]
        ELSE Mk("ExprTup", "", PathsTo(T))

GraphCrates == {[a \in StaticIds |-> MkStatic(a, RefInit(E, a))] : E \in EdgeSets(MaxRefs)}

\* A prefix item, the chain of three statics 2 -> 3 -> 4 -> 2, a suffix item.
RefForms(b) ==
    {PathStatic(b), Mk("ExprTup", "", <<Lit, PathStatic(b)>>),
     MkOp("ExprUnary", "UnBox", <<PathStatic(b)>>, FALSE)}

ChainPrefix ==
    {<<>>, <<MkStatic(1, Lit)>>, <<MkStatic(1, PathStatic(2))>>,
     <<MkStatic(1, PathStatic(4))>>,
     <<MkStatic(1, MkOp("ExprUnary", "UnBox", <<Lit>>, FALSE))>>}

ChainSuffix ==
    {<<>>, <<MkStatic(5, Lit)>>, <<MkStatic(5, PathStatic(5))>>}

ChainCrates ==
    {pre \o <<MkStatic(2, a), MkStatic(3, b), MkStatic(4, c)>> \o suf :
        pre \in ChainPrefix, suf \in ChainSuffix,
        a \in RefForms(3), b \in RefForms(4), c \in RefForms(2)}

\* Mixed crates: MaxMixed items of every kind the crate walker tells apart.
AllocLit == MkOp("ExprUnary", "UnBox", <<Lit>>, FALSE)
UniqStr == Mk("ExprVstore", "ExprVstoreUniq", <<StrLit>>)

MixedItems(i) ==
    {MkStatic(i, Lit),
     MkStatic(i, AllocLit),
     MkStatic(i, Mk("ExprTup", "", <<AllocLit, PathStatic(i)>>)),
     MkItem(i, "item_enum", <<>>, <<<<>>, <<AllocLit>>, <<PathExtern>>>>, <<>>, <<>>),
     MkItem(i, "item_mod", <<>>, <<>>,
            <<MkStatic(10 * i + 1, AllocLit), MkStatic(10 * i + 2, PathStatic(10 * i + 1))>>,
            <<>>),
     MkItem(i, "item_fn", <<Mk("ExprParen", "", <<AllocLit>>)>>, <<>>, <<>>,
            <<MkPat("PatLit", <<AllocLit>>, <<>>),
              MkPat("PatTup", <<>>, <<MkPat("PatRange", <<UniqStr, PathLocalVar>>, <<>>)>>)>>),
     MkItem(i, "item_fn", <<Lit>>, <<>>, <<>>, <<MkPat("PatLit", <<UniqStr>>, <<>>)>>)}

RECURSIVE MixedCrates(_)
MixedCrates(n) ==
    IF n = 0 THEN {<<>>}
    ELSE {Append(c, it) : c \in MixedCrates(n - 1), it \in MixedItems(n)}

Crates == ExprCrates \cup GraphCrates \cup ChainCrates \cup MixedCrates(MaxMixed)

Init ==
    /\ crate \in Crates
    /\ stack = <<Frame("check_crate")>>
    /\ err_count = 0
    /\ diags = <<>>
    /\ status = "running"
    /\ idstack = <<>>
    /\ root_it = NoItem
    /\ visits = <<>>
    /\ roots = <<>>
    /\ dispatched = <<>>

Spec == Init /\ [][Next]_vars

FairSpec == Init /\ [][Next]_vars /\ WF_vars(Next)

\* ================================================================ claims
Finished == status # "running"

ProperPrefix(p, q) == Len(p) < Len(q) /\ SubSeq(q, 1, Len(p)) = p

DiagCount(msg, id) ==
    Cardinality({k \in 1..Len(diags) : diags[k].msg = msg /\ diags[k].span = id})

ConstVisitCount(id) ==
    Cardinality({k \in 1..Len(visits) : visits[k].id = id /\ visits[k].is_const})

NothingBelowVisited(id) ==
    \A k \in 1..Len(visits) : ~ProperPrefix(id, visits[k].id)

KidsVisited(v) ==
    \A k \in 1..Len(v.e.kids) :
        \E j \in 1..Len(visits) :
            visits[j].id = Append(v.id, k) /\ visits[j].is_const = v.is_const

\* The forms the whitelist table of the validator lists.
ListedForm(e) ==
    \/ e.kind \in {"ExprUnary", "ExprBinary", "ExprLit", "ExprCast", "ExprPath",
                   "ExprParen", "ExprAddrOf", "ExprField", "ExprIndex", "ExprTup",
                   "ExprRepeat", "ExprStruct"}
    \/ e.kind = "ExprCall" /\ e.sub = "NoSugar"
    \/ e.kind = "ExprVstore"
       /\ e.sub \in {"ExprVstoreSlice", "ExprVstoreUniq", "ExprVstoreBox"}
    \/ e.kind = "ExprVec" /\ e.sub = "MutImmutable"

IsAlloc(e) == e.kind = "ExprUnary" /\ e.sub \in {"UnBox", "UnUniq"}

\* The violations of the whitelist the error taxonomy names.
Violates(e) ==
    \/ IsAlloc(e)
    \/ e.kind \in {"ExprUnary", "ExprBinary"} /\ e.sub # "UnDeref" /\ e.method
    \/ e.kind = "ExprCast" /\ e.ety \notin {"numeric", "unsafe_ptr"}
    \/ e.kind = "ExprPath" /\ e.types
    \/ e.kind = "ExprPath"
       /\ e.def \notin {"DefStatic", "DefFn", "DefVariant", "DefStruct"}
    \/ e.kind = "ExprCall" /\ e.sub = "NoSugar"
       /\ e.kids[1].def \notin {"DefStruct", "DefVariant"}
    \/ e.kind = "ExprAddrOf" /\ e.sub # "MutImmutable"
    \/ e.kind = "ExprVstore" /\ e.sub \in {"ExprVstoreUniq", "ExprVstoreBox"}
    \/ ~ListedForm(e)

Prunes(e) == IsAlloc(e) \/ ~ListedForm(e)

\* C7: every visit with is_const = TRUE of an expression whose form the
\* whitelist does not list emits "constant contains unimplemented expression
\* type" for that node, nothing else, and no node below it is ever visited.
C7_UnlistedFormRejected ==
    \A i \in 1..Len(visits) :
        LET v == visits[i]
        IN  v.is_const /\ ~ListedForm(v.e) =>
                /\ DiagCount(MsgUnimpl, v.id) = ConstVisitCount(v.id)
                /\ \A k \in 1..Len(diags) :
                       diags[k].span = v.id => diags[k].msg = MsgUnimpl
                /\ NothingBelowVisited(v.id)

\* C7 witness: the walk has ended after the validator met, in a constant, an
\* unlisted form that has a child.
C7_Witness ==
    /\ status = "aborted"
    /\ \E i \in 1..Len(visits) :
           /\ visits[i].is_const
           /\ ~ListedForm(visits[i].e)
           /\ visits[i].e.kids # <<>>

\* C10 as stated: a node that violates the whitelist gets a diagnostic and
\* none of its children is visited; a permitted node has its children
\* visited under the same flag.
C10_ViolationPrunes ==
    \A i \in 1..Len(visits) :
        LET v == visits[i]
        IN  v.is_const =>
                /\ Violates(v.e) =>
                       /\ \E k \in 1..Len(diags) : diags[k].span = v.id
                       /\ NothingBelowVisited(v.id)
                /\ ~Violates(v.e) /\ Finished => KidsVisited(v)

\* C10 amended: a node visited with is_const = TRUE gets a diagnostic exactly
\* when it violates the whitelist; nothing below it is visited when it is an
\* allocation or an unlisted form; in every other case, violation or not, all
\* its children are visited, under the same flag.
C10_OnlyAllocAndUnlistedPrune ==
    \A i \in 1..Len(visits) :
        LET v == visits[i]
        IN  v.is_const =>
                /\ Violates(v.e) <=> \E k \in 1..Len(diags) : diags[k].span = v.id
                /\ Prunes(v.e) => NothingBelowVisited(v.id)
                /\ ~Prunes(v.e) /\ Finished => KidsVisited(v)
                /\ \A j \in 1..Len(visits), k \in 1..Len(v.e.kids) :
                       visits[j].id = Append(v.id, k) => visits[j].is_const

\* C10 witness: the walk has ended, and a mutable borrow in a constant was
\* reported and its operand visited all the same.
C10_Witness ==
    /\ status = "aborted"
    /\ \E i \in 1..Len(visits) :
           LET v == visits[i]
           IN  /\ v.is_const
               /\ v.e.kind = "ExprAddrOf" /\ v.e.sub = "MutMutable"
               /\ DiagCount(MsgBorrow, v.id) = 1
               /\ \E j \in 1..Len(visits) : visits[j].id = Append(v.id, 1)

\* The places of the allocation nodes inside an expression.
RECURSIVE AllocPaths(_)
AllocPaths(e) ==
    (IF IsAlloc(e) THEN {<<>>} ELSE {})
    \cup UNION {{<<k>> \o q : q \in AllocPaths(e.kids[k])} : k \in 1..Len(e.kids)}

\* C4 as stated: for every expression validated with is_const = TRUE and
\* every allocation node inside it, the validator emits exactly one "cannot
\* do allocations" diagnostic for that node and visits nothing below it.
C4_OneAllocDiagPerNode ==
    \A i \in 1..Len(visits) :
        visits[i].is_const =>
            \A q \in AllocPaths(visits[i].e) :
                LET n == visits[i].id \o q
                IN  /\ DiagCount(MsgAlloc, n) <= 1
                    /\ Finished => DiagCount(MsgAlloc, n) = 1
                    /\ NothingBelowVisited(n)

\* C5 as stated: check_expr is entered at most once for every expression
\* node during one check_crate.
C5_VisitedAtMostOnce ==
    \A i, j \in 1..Len(visits) : visits[i].id = visits[j].id => i = j

\* ---------------------------------------------------- the reference graph
StaticsOf(items) == {it.id : it \in {x \in ItemsIn(items) : x.kind = "item_static"}}

\* The ids of all items, in the order the crate walker reaches them.
RECURSIVE WalkOrder(_)
WalkOrder(items) ==
    IF items = <<>> THEN <<>>
    ELSE <<Head(items).id>> \o WalkOrder(Head(items).items) \o WalkOrder(Tail(items))

Pos(id) == CHOOSE k \in 1..Len(WalkOrder(crate)) : WalkOrder(crate)[k] = id

Range(seq) == {seq[k] : k \in 1..Len(seq)}

Last(seq) == seq[Len(seq)]

\* The local statics the paths inside an expression resolve to.
RECURSIVE LocalRefs(_)
LocalRefs(e) ==
    (IF e.kind = "ExprPath" /\ e.def = "DefStatic" /\ e.krate = LOCAL_CRATE
     THEN {e.node} ELSE {})
    \cup UNION {LocalRefs(e.kids[k]) : k \in 1..Len(e.kids)}

\* a -> b: the initializer of static a refers to static b.
Succ(a) == LocalRefs(ItemOf(a).ex[1])

RECURSIVE Grow(_)
Grow(S) ==
    LET T == S \cup UNION {Succ(x) : x \in S}
    IN  IF T = S THEN S ELSE Grow(T)

ReachPlus(a) == Grow(Succ(a))

CycleReachable(r) == \E n \in {r} \cup ReachPlus(r) : n \in ReachPlus(n)

FatalDiags == {k \in 1..Len(diags) : diags[k].msg = MsgRecursive}

EndsWithFatal == diags # <<>> /\ FatalDiags = {Len(diags)}

DetectorRuns ==
    /\ status = "running"
    /\ stack # <<>>
    /\ Head(stack).op \in {"check_item_recursion", "rec_visit_item",
                           "rec_visit_expr", "rec_pop", "rec_return"}

\* C2: check_item_recursion(R) ends with the fatal "recursive constant"
\* exactly when a reference cycle among local statics is reachable from R;
\* when it returns normally no such cycle is reachable and it has emitted
\* nothing.  Only paths resolving to local statics count as references.
C2_FatalIffCycleReachable ==
    /\ [](status = "fatal" => CycleReachable(root_it.id) /\ EndsWithFatal)
    /\ [](Running("rec_return") => ~CycleReachable(root_it.id))
    /\ [][DetectorRuns /\ status' # "fatal" =>
              diags' = diags /\ err_count' = err_count]_vars

\* C2 witness: the detector has returned normally from a root that refers to
\* two statics, one of which refers to the other.
C2_Witness ==
    /\ Running("rec_return")
    /\ \E b, c \in Succ(root_it.id) : b # c /\ c \in Succ(b)

\* The ids of the visit_item activations of the detector that have not
\* returned, the outermost first.
RECURSIVE Expanding(_)
Expanding(frames) ==
    IF frames = <<>> THEN <<>>
    ELSE Expanding(Tail(frames))
         \o (IF Head(frames).op = "rec_pop" THEN <<Head(frames).it.id>> ELSE <<>>)

\* C9: the traversal stack is at every point the chain of the declarations
\* being expanded, from the root down; so it is empty before a root's check,
\* when the check returns and between two roots, it holds no identifier
\* twice, and it starts with the root.
C9_StackIsCurrentChain ==
    /\ idstack = Expanding(stack)
    /\ \A i, j \in 1..Len(idstack) : idstack[i] = idstack[j] => i = j
    /\ idstack # <<>> => idstack[1] = root_it.id
    /\ Running("rec_return") => idstack = <<>>
    /\ Running("check_item") \/ Running("check_item_recursion") => idstack = <<>>

\* C9 witness: a chain of three declarations is being expanded, after a
\* first root's check has returned.
C9_Witness ==
    /\ status = "running"
    /\ Len(idstack) = 3
    /\ Len(roots) >= 2

\* C8: the detector is started at most once per item, only for statics the
\* walker has dispatched, for each of them once its initializer has been
\* validated with is_const = TRUE and no validation of it is pending; a
\* fatal error is the last diagnostic; discriminants are validated with
\* is_const = TRUE, the children of other items visited with FALSE.
C8_DetectorOncePerStaticAfterValidation ==
    /\ \A i, j \in 1..Len(roots) : roots[i] = roots[j] => i = j
    /\ \A i \in 1..Len(roots) :
           ItemOf(roots[i]).kind = "item_static" /\ roots[i] \in Range(dispatched)
    /\ \A i \in 1..Len(dispatched) :
           ItemOf(dispatched[i]).kind = "item_static"
           /\ dispatched[i] \notin Range(roots)
           => \E k \in 1..Len(stack) :
                  stack[k].op = "check_item_recursion" /\ stack[k].it.id = dispatched[i]
    /\ Running("check_item_recursion") =>
           LET it == Head(stack).it
           IN  /\ \E j \in 1..Len(visits) :
                      visits[j].id = <<it.id, 1>> /\ visits[j].is_const
               /\ \A k \in 1..Len(stack) :
                      stack[k].op \in {"check_expr", "walk_expr"} => stack[k].id[1] # it.id
    /\ status \in {"ok", "aborted"} =>
           \A id \in StaticsOf(crate) : id \in Range(dispatched) => id \in Range(roots)
    /\ status = "fatal" => EndsWithFatal
    /\ \A j \in 1..Len(visits) :
           LET k == ItemOf(visits[j].id[1]).kind
           IN  /\ k \in {"item_static", "item_enum"} => visits[j].is_const
               /\ k \in {"item_fn", "item_mod"} /\ Len(visits[j].id) = 2
                      => ~visits[j].is_const

\* C8 witness: a fatal error rooted at a static whose initializer had already
\* drawn a recoverable diagnostic, in a crate with an enum dispatched before.
C8_Witness ==
    /\ status = "fatal"
    /\ Len(diags) >= 2
    /\ diags[Len(diags) - 1].span[1] = root_it.id
    /\ \E i \in 1..Len(dispatched) : ItemOf(dispatched[i]).kind = "item_enum"

AllDispatched == \A it \in ItemsIn(crate) : it.id \in Range(dispatched)

AbortFrames == {k \in 1..Len(stack) : stack[k].op = "abort_if_errors"}

\* C3 as stated: a run in which a recoverable error was emitted ends with
\* every declaration of the crate dispatched; and the abort decision is
\* taken with the whole tree walked, aborting iff the counter is not zero.
C3_ErrorNeverCutsWalkShort ==
    /\ Finished /\ err_count > 0 => AllDispatched
    /\ status \in {"ok", "aborted"} =>
           AllDispatched /\ (status = "aborted" <=> err_count > 0)

\* C3 amended: a step that emits a recoverable diagnostic leaves the walk
\* running with every pending call still scheduled; unless the fatal
\* "recursive constant" error ends the run, the run ends with the one abort
\* decision, taken when every declaration has been dispatched and nothing
\* else is pending: aborted iff the counter is not zero.
C3_OnlyFatalCutsWalkShort ==
    /\ [][err_count' > err_count =>
              /\ status' = "running"
              /\ \E n \in 0..Len(stack') : SubSeq(stack', n + 1, Len(stack')) = Tail(stack)]_vars
    /\ [](Finished => status \in {"ok", "aborted", "fatal"})
    /\ [](status = "fatal" => EndsWithFatal)
    /\ [](status \in {"ok", "aborted"} =>
              /\ AllDispatched
              /\ stack = <<>>
              /\ FatalDiags = {}
              /\ status = "aborted" <=> err_count > 0)
    /\ [](Running("abort_if_errors") => Len(stack) = 1 /\ AllDispatched)
    /\ [](status = "running" /\ ~Running("check_crate") => AbortFrames = {Len(stack)})

\* C3 witness: the run ended aborted after three or more declarations were
\* dispatched, the first of which drew the first diagnostic.
C3_Witness ==
    /\ status = "aborted"
    /\ Len(dispatched) >= 3
    /\ diags[1].span[1] = dispatched[1]

\* C6: every run ends, at the abort decision or at the fatal error, and the
\* detector's chain is never longer than the number of declarations.
C6_Terminates ==
    /\ <>Finished
    /\ [](Len(idstack) <= Cardinality(ItemsIn(crate)))
    /\ [](Finished => \/ status \in {"ok", "aborted"} /\ stack = <<>>
                      \/ status = "fatal" /\ EndsWithFatal)

\* C6 witness: a fatal error found with every declaration of a crate of three
\* or more on the chain.
C6_Witness ==
    /\ status = "fatal"
    /\ Len(idstack) >= 3
    /\ Len(idstack) = Cardinality(ItemsIn(crate))

\* The chains a -> b -> c -> a of statics with a reached first by the walk.
Chains ==
    {ch \in StaticsOf(crate) \X StaticsOf(crate) \X StaticsOf(crate) :
        /\ ch[1] # ch[2] /\ ch[2] # ch[3] /\ ch[1] # ch[3]
        /\ ch[2] \in Succ(ch[1]) /\ ch[3] \in Succ(ch[2]) /\ ch[1] \in Succ(ch[3])
        /\ Pos(ch[1]) < Pos(ch[2]) /\ Pos(ch[1]) < Pos(ch[3])}

\* The chains whose first static is the first static of the walk from which
\* a cycle can be reached.
FirstChains ==
    {ch \in Chains :
        \A s \in StaticsOf(crate) : Pos(s) < Pos(ch[1]) => ~CycleReachable(s)}

FatalAt(a) ==
    /\ status = "fatal"
    /\ EndsWithFatal
    /\ Last(diags).span = <<a>>
    /\ Last(dispatched) = a
    /\ Last(roots) = a

\* C1 as stated: with a chain a -> b -> c -> a, a reached first, the run
\* ends with one fatal error at a's span, a being the last declaration
\* dispatched and cycle-checked, and never with the abort decision.
C1_FatalAtFirstOfChain ==
    Finished => \A ch \in Chains : FatalAt(ch[1])

\* C1 amended: the same, for a chain whose first static a is the first
\* static of the walk from which any reference cycle can be reached.
C1_FatalAtFirstCyclicRoot ==
    /\ [](Finished => \A ch \in FirstChains : FatalAt(ch[1]))
    /\ (FirstChains # {}) ~> (status = "fatal")

\* C1 witness: the fatal error at the first static of a chain that is
\* neither the first nor the last declaration of the crate.
C1_Witness ==
    /\ \E ch \in FirstChains : FatalAt(ch[1])
    /\ Len(dispatched) >= 2
    /\ Len(dispatched) < Cardinality(ItemsIn(crate))

====
